---- MODULE Spec2Model ----
(***************************************************************************)
(* Model of scan-ip/check_ip_alive.py: target expansion (expand_ip_range), *)
(* target resolution in main, the parallel scanner (check_ips_parallel)    *)
(* and the round robin monitor (round_robin_monitor).                      *)
(*                                                                         *)
(* A str is the sequence of the code points of its characters (ord of     *)
(* each), so that parsing and formatting are computed and not assumed; the *)
(* text of a sample is given beside it.  An IPv4 address value is the      *)
(* tuple of its four octets (the 32-bit integer of the ipaddress module,   *)
(* big endian); arithmetic on it carries between octets and overflows at   *)
(* 255.255.255.255 exactly where the 32-bit integer does.                  *)
(***************************************************************************)
EXTENDS Integers, Sequences, FiniteSets, TLC

VARIABLES
    pc,            \* position of the main thread in the function under study
    ip_range,      \* expand_ip_range: the argument
    expanded,      \* expand_ip_range: the outcome (returned list, error printed)
    args,          \* main: the parsed command line
    arg_i,         \* main: index of the next ip_arg of the loop of line 393
    ip_addresses,  \* main / check_ips_parallel / round_robin_monitor: address list
    warnings,      \* main: the ip_args reported by the warning of line 400
    max_workers,   \* check_ips_parallel: size of the thread pool
    futures,       \* check_ips_parallel: state of the future of each list position
    work_queue,    \* ThreadPoolExecutor: submitted positions not yet taken by a worker
    pool,          \* ThreadPoolExecutor: threads spawned, idle semaphore
    yielded,       \* as_completed: positions whose future was already yielded
    results,       \* check_ips_parallel / round_robin_monitor: result list
    interrupted,   \* check_ips_parallel: KeyboardInterrupt was raised in the main thread
    started_after, \* positions whose probe was started after the interrupt
    check_count,   \* round_robin_monitor: cycle counter
    history,       \* round_robin_monitor: address -> list of booleans
    idx,           \* round_robin_monitor: 1-based position of the for loop of line 294
    alive,         \* what ping answers: in the monitor position -> cycle ->
                   \* reachable, in the scanner position -> way the ping ends
    probe_log,     \* the probes started: in the monitor <<cycle, position>> in
                   \* order, in the scanner position -> number of starts
    output,        \* round_robin_monitor: the statistics blocks printed so far
    sig_at,        \* round_robin_monitor: position at which SIGINT arrived
    passed         \* print_results: the arguments as the caller passed them

vars == <<pc, ip_range, expanded, args, arg_i, ip_addresses, warnings,
          max_workers, futures, work_queue, pool, yielded, results, interrupted,
          started_after, check_count, history, idx, alive, probe_log,
          output, sig_at, passed>>

expandVars  == <<ip_range, expanded>>
mainVars    == <<args, arg_i, warnings>>
scanVars    == <<max_workers, futures, work_queue, pool, yielded, interrupted,
                 started_after>>
monitorVars == <<check_count, history, idx, output, sig_at>>

(***************************************************************************)
(* Bounds of the model.                                                    *)
(***************************************************************************)
MaxRangeLen == 6     \* longest range a sampled range spec expands to
MaxHostBits == 8     \* sampled CIDR specs have a prefix length >= 32 - MaxHostBits
MaxArgs     == 2     \* number of target specs on the command line
MaxAddrs    == 3     \* longest address list given to the scanner
MaxMonitored == 2    \* longest address list given to the monitor
MaxWorkers  == 2     \* largest max_workers
MaxCycles   == 16    \* monitoring cycles explored
MaxResults  == 4     \* longest result list given to print_results

(***************************************************************************)
(* str operations used by the code.                                        *)
(***************************************************************************)
\* ord of the characters the code names: '.', '/', '-' and '#'
Dot == 46
Slash == 47
Dash == 45
Hash == 35

\* str.isascii() and str.isdigit() on one character
IsDigit(c) == c \in 48..57

\* int(c) for a decimal digit
DigitVal(c) == c - 48

\* the characters str.strip() removes, those for which str.isspace() holds:
\* tab, line feed, vertical tab, form feed, carriage return, the separators
\* chr(28) .. chr(31), space, chr(133), chr(160) and the spaces of Unicode
Whitespace ==
    (9..13) \cup (28..32) \cup {133, 160, 5760} \cup (8192..8202)
    \cup {8232, 8233, 8239, 8287, 12288}

\* c in s
Contains(s, c) == \E k \in 1..Len(s) : s[k] = c

IndexOf(s, c) == CHOOSE k \in 1..Len(s) : s[k] = c /\ \A j \in 1..(k-1) : s[j] # c

\* s.split(c, 1)
split1(s, c) ==
    IF ~Contains(s, c) THEN <<s>>
    ELSE <<SubSeq(s, 1, IndexOf(s, c) - 1), SubSeq(s, IndexOf(s, c) + 1, Len(s))>>

\* s.split(c)
RECURSIVE split(_, _)
split(s, c) ==
    IF ~Contains(s, c) THEN <<s>>
    ELSE <<SubSeq(s, 1, IndexOf(s, c) - 1)>>
         \o split(SubSeq(s, IndexOf(s, c) + 1, Len(s)), c)

\* s.strip()
RECURSIVE strip(_)
strip(s) ==
    IF s = <<>> THEN s
    ELSE IF s[1] \in Whitespace THEN strip(Tail(s))
    ELSE IF s[Len(s)] \in Whitespace THEN strip(SubSeq(s, 1, Len(s) - 1))
    ELSE s

\* int(s) for a string of decimal digits
RECURSIVE DecVal(_)
DecVal(s) ==
    IF s = <<>> THEN 0
    ELSE 10 * DecVal(SubSeq(s, 1, Len(s) - 1)) + DigitVal(s[Len(s)])

\* str(n) for n >= 0
RECURSIVE DecStr(_)
DecStr(n) ==
    IF n < 10 THEN <<48 + n>>
    ELSE DecStr(n \div 10) \o <<48 + (n % 10)>>

AllDigits(s) == s # <<>> /\ \A k \in 1..Len(s) : IsDigit(s[k])

\* Binary numerals, most significant digit first, for the float arithmetic
\* of (a / t) * 100.
Zeros(n) == [k \in 1..n |-> 0]

RECURSIVE Trim(_)
Trim(x) == IF x # <<>> /\ x[1] = 0 THEN Trim(Tail(x)) ELSE x

RECURSIVE Bits(_)
Bits(n) == IF n = 0 THEN <<>> ELSE Bits(n \div 2) \o <<n % 2>>

AddBits(x, y) ==
    LET n == (IF Len(x) > Len(y) THEN Len(x) ELSE Len(y)) + 1
        px == Zeros(n - Len(x)) \o x
        py == Zeros(n - Len(y)) \o y
        c[k \in 0..n] ==
            IF k = 0 THEN 0 ELSE (px[n - k + 1] + py[n - k + 1] + c[k - 1]) \div 2
    IN  Trim([k \in 1..n |-> (px[k] + py[k] + c[n - k]) % 2])

\* x < y for numerals without leading zeros
LessBits(x, y) ==
    \/ Len(x) < Len(y)
    \/ /\ Len(x) = Len(y)
       /\ \E k \in 1..Len(x) :
              /\ x[k] < y[k]
              /\ \A j \in 1..(k - 1) : x[j] = y[j]

\* IEEE 754 binary64 rounding of the numeral x followed by a remainder that is
\* zero or not (sticky): the nearest numeral of 53 significant digits, a tie
\* going to the even one; [m, e] stands for m * 2^e
RoundBits(x, sticky) ==
    IF Len(x) <= 53 THEN [m |-> x, e |-> 0]
    ELSE LET keep == SubSeq(x, 1, 53)
             rest == \E k \in 55..Len(x) : x[k] = 1
             up == x[54] = 1 /\ (sticky \/ rest \/ keep[53] = 1)
         IN  [m |-> IF up THEN AddBits(keep, <<1>>) ELSE keep, e |-> Len(x) - 53]

\* the first n binary digits of r / t after the point, for 0 <= r < t
RECURSIVE DivBits(_, _, _)
DivBits(r, t, n) ==
    IF n = 0 THEN <<>> ELSE <<(2 * r) \div t>> \o DivBits((2 * r) % t, t, n - 1)

\* the remainder left after the first n binary digits of r / t
RECURSIVE DivRem(_, _, _)
DivRem(r, t, n) == IF n = 0 THEN r ELSE DivRem((2 * r) % t, t, n - 1)

\* the zeros between the point and the first 1 of a / t, for 0 < a < t
RECURSIVE LeadingZeros(_, _)
LeadingZeros(a, t) == IF 2 * a >= t THEN 0 ELSE 1 + LeadingZeros(2 * a, t)

\* a * 2^LeadingZeros(a, t)
RECURSIVE ShiftUp(_, _)
ShiftUp(a, t) == IF 2 * a >= t THEN a ELSE ShiftUp(2 * a, t)

\* the float a / t for 0 < a < t, as m * 2^(-e)
float_div(a, t) ==
    LET z == LeadingZeros(a, t)
        r == ShiftUp(a, t)
        x == RoundBits(DivBits(r, t, 54), DivRem(r, t, 54) # 0)
    IN  [m |-> x.m, e |-> z + 54 - x.e]

\* the float x * 100 for a float x = m * 2^(-e)
float_times_100(x) ==
    LET prod == AddBits(AddBits(x.m \o Zeros(6), x.m \o Zeros(5)), x.m \o Zeros(2))
        y == RoundBits(prod, FALSE)
    IN  [m |-> y.m, e |-> x.e - y.e]

\* f"{(a / t) * 100:.1f}" in tenths, for 0 <= a <= t and t > 0: the tenth
\* nearest to the float (a / t) * 100, a tie going to the even tenth (6.25
\* prints as 6.2).  The float is within 10^-12 of the quotient 100 * a / t, so
\* it rounds as the quotient does unless the quotient lies midway between
\* two tenths, n / 20 for an odd n (no quotient is nearer than 1 / (20 * t)
\* to such a value without being it); then the float is compared with n / 20
\* (23 / 80 gives 28.749999999999996 and prints as 28.7).
format_1f(a, t) ==
    LET q == (2000 * a) \div (2 * t)
        r == (2000 * a) % (2 * t)
        y == float_times_100(float_div(a, t))
        \* 20 * y and 2 * q + 1, both in units of 2^(-y.e)
        lhs == AddBits(y.m \o Zeros(4), y.m \o Zeros(2))
        rhs == Bits(2 * q + 1) \o Zeros(y.e)
    IN  IF r # t THEN (IF r > t THEN q + 1 ELSE q)
        ELSE IF LessBits(lhs, rhs) THEN q
        ELSE IF LessBits(rhs, lhs) THEN q + 1
        ELSE IF q % 2 = 1 THEN q + 1 ELSE q

(***************************************************************************)
(* The ipaddress module (Python 3.11), as far as expand_ip_range uses it.  *)
(***************************************************************************)
NoAddr == <<0, 0, 0, 0>>

\* IPv4Address._parse_octet: the octet, or a raise (ok = FALSE)
parse_octet(octet_str) ==
    IF octet_str = <<>> THEN [ok |-> FALSE, val |-> 0]
    ELSE IF ~AllDigits(octet_str) THEN [ok |-> FALSE, val |-> 0]
    ELSE IF Len(octet_str) > 3 THEN [ok |-> FALSE, val |-> 0]
    ELSE IF octet_str # <<48>> /\ octet_str[1] = 48 THEN [ok |-> FALSE, val |-> 0]
    ELSE IF DecVal(octet_str) > 255 THEN [ok |-> FALSE, val |-> 0]
    ELSE [ok |-> TRUE, val |-> DecVal(octet_str)]

\* IPv4Address(ip_str): the address, or AddressValueError (ok = FALSE)
IPv4Address(ip_str) ==
    IF ip_str = <<>> THEN [ok |-> FALSE, ip |-> NoAddr]
    ELSE LET octets == split(ip_str, Dot) IN
         IF Len(octets) # 4 THEN [ok |-> FALSE, ip |-> NoAddr]
         ELSE IF \E k \in 1..4 : ~parse_octet(octets[k]).ok
              THEN [ok |-> FALSE, ip |-> NoAddr]
              ELSE [ok |-> TRUE, ip |-> [k \in 1..4 |-> parse_octet(octets[k]).val]]

\* str(IPv4Address)
AddrStr(ip) ==
    DecStr(ip[1]) \o <<Dot>> \o DecStr(ip[2]) \o <<Dot>> \o DecStr(ip[3])
    \o <<Dot>> \o DecStr(ip[4])

\* a < b and a <= b on addresses (comparison of the 32-bit integers)
AddrLt(a, b) ==
    \E k \in 1..4 : a[k] < b[k] /\ \A j \in 1..(k-1) : a[j] = b[j]

AddrLe(a, b) == a = b \/ AddrLt(a, b)

\* the two 16-bit halves of the 32-bit integer
Hi(ip) == ip[1] * 256 + ip[2]
Lo(ip) == ip[3] * 256 + ip[4]

FromHalves(h, l) == <<h \div 256, h % 256, l \div 256, l % 256>>

\* IPv4Address(int(ip) + n), 0 <= n < 2^30; ok = FALSE when the sum is
\* >= 2^32 (_check_int_address raises AddressValueError)
AddrAdd(ip, n) ==
    LET l == Lo(ip) + n
        h == Hi(ip) + (l \div 65536)
    IN  IF h >= 65536 THEN [ok |-> FALSE, ip |-> NoAddr]
        ELSE [ok |-> TRUE, ip |-> FromHalves(h, l % 65536)]

\* int(b) - int(a) for addresses less than 2^15 * 2^16 apart
AddrDiff(a, b) == (Hi(b) - Hi(a)) * 65536 + (Lo(b) - Lo(a))

RECURSIVE BitAnd(_, _)
BitAnd(a, b) ==
    IF a = 0 \/ b = 0 THEN 0
    ELSE (a % 2) * (b % 2) + 2 * BitAnd(a \div 2, b \div 2)

\* 2^n
RECURSIVE Pow2(_)
Pow2(n) == IF n = 0 THEN 1 ELSE 2 * Pow2(n - 1)

Min(a, b) == IF a < b THEN a ELSE b
Max(a, b) == IF a > b THEN a ELSE b

\* _ip_int_from_prefix: the netmask of a prefix length
ip_int_from_prefix(prefixlen) ==
    [k \in 1..4 |-> 256 - Pow2(8 - Max(0, Min(8, prefixlen - 8 * (k - 1))))]

\* number of zero bits on the right of one octet (8 for 0)
RECURSIVE OctetZeroBits(_)
OctetZeroBits(o) ==
    IF o = 0 THEN 8 ELSE IF o % 2 = 1 THEN 0 ELSE 1 + OctetZeroBits(o \div 2)

\* _count_righthand_zero_bits(ip_int, 32)
count_righthand_zero_bits(ip) ==
    IF ip[4] # 0 THEN OctetZeroBits(ip[4])
    ELSE IF ip[3] # 0 THEN 8 + OctetZeroBits(ip[3])
    ELSE IF ip[2] # 0 THEN 16 + OctetZeroBits(ip[2])
    ELSE IF ip[1] # 0 THEN 24 + OctetZeroBits(ip[1])
    ELSE 32

\* _prefix_from_ip_int: the prefix length of a netmask of the form 1*0*,
\* ValueError (ok = FALSE) when the mask mixes zeroes and ones
prefix_from_ip_int(ip) ==
    LET prefixlen == 32 - count_righthand_zero_bits(ip) IN
    IF ip # ip_int_from_prefix(prefixlen) THEN [ok |-> FALSE, val |-> 0]
    ELSE [ok |-> TRUE, val |-> prefixlen]

\* _prefix_from_prefix_string
prefix_from_prefix_string(prefixlen_str) ==
    IF ~AllDigits(prefixlen_str) THEN [ok |-> FALSE, val |-> 0]
    ELSE IF DecVal(prefixlen_str) > 32 THEN [ok |-> FALSE, val |-> 0]
    ELSE [ok |-> TRUE, val |-> DecVal(prefixlen_str)]

\* _prefix_from_ip_string: a dotted netmask, else a dotted hostmask
prefix_from_ip_string(ip_str) ==
    LET m == IPv4Address(ip_str) IN
    IF ~m.ok THEN [ok |-> FALSE, val |-> 0]
    ELSE IF prefix_from_ip_int(m.ip).ok THEN prefix_from_ip_int(m.ip)
    ELSE prefix_from_ip_int([k \in 1..4 |-> 255 - m.ip[k]])

\* _make_netmask
make_netmask(arg) ==
    IF prefix_from_prefix_string(arg).ok THEN prefix_from_prefix_string(arg)
    ELSE prefix_from_ip_string(arg)

\* IPv4Network(address, strict=False): ok = FALSE for AddressValueError and
\* NetmaskValueError
IPv4Network(address) ==
    LET parts == split(address, Slash)
        bad   == [ok |-> FALSE, addr |-> NoAddr, network_address |-> NoAddr,
                  prefixlen |-> 0]
    IN  IF Len(parts) > 2 THEN bad
        ELSE LET a == IPv4Address(parts[1])
                 p == IF Len(parts) = 2 THEN make_netmask(parts[2])
                      ELSE [ok |-> TRUE, val |-> 32]
             IN  IF ~a.ok \/ ~p.ok THEN bad
                 ELSE [ok |-> TRUE, addr |-> a.ip,
                       network_address |->
                           [k \in 1..4 |->
                               BitAnd(a.ip[k], ip_int_from_prefix(p.val)[k])],
                       prefixlen |-> p.val]

\* network.broadcast_address: network_address | hostmask
broadcast_address(network) ==
    [k \in 1..4 |-> network.network_address[k]
                    + (255 - ip_int_from_prefix(network.prefixlen)[k])]

\* hosts() that forgets to leave out the network and broadcast addresses
hosts_with_ends(network) ==
    [k \in 1..(AddrDiff(network.network_address,
                        broadcast_address(network)) + 1) |->
        AddrAdd(network.network_address, k - 1).ip]

\* network.hosts(), for a network of less than 2^30 addresses
hosts(network) ==
    IF network.prefixlen = 31
    THEN <<network.network_address, broadcast_address(network)>>
    ELSE IF network.prefixlen = 32 THEN <<network.addr>>
    ELSE [k \in 1..(AddrDiff(network.network_address,
                             broadcast_address(network)) - 1) |->
             AddrAdd(network.network_address, k).ip]

(***************************************************************************)
(* expand_ip_range.  The outcome is the returned list and the exception    *)
(* reported by the print of line 127 ("none" when no exception was         *)
(* raised).  AddressValueError and NetmaskValueError are ValueErrors.      *)
(***************************************************************************)
Failed == [ips |-> <<>>, error |-> "ValueError"]

Returned(ips) == [ips |-> ips, error |-> "none"]

\* lines 100-102: CIDR notation
expand_cidr(spec) ==
    LET network == IPv4Network(spec) IN
    IF ~network.ok THEN Failed
    ELSE Returned([k \in 1..Len(hosts(network)) |-> AddrStr(hosts(network)[k])])

\* lines 113-118: the while loop; current += 1 raises at 255.255.255.255
RECURSIVE range_loop(_, _, _)
range_loop(current, end_ip, ips) ==
    IF AddrLe(current, end_ip)
    THEN IF ~AddrAdd(current, 1).ok THEN Failed
         ELSE range_loop(AddrAdd(current, 1).ip, end_ip,
                         Append(ips, AddrStr(current)))
    ELSE Returned(ips)

\* range notation without the start > end check of line 110
expand_range_unchecked(spec) ==
    LET start_ip == IPv4Address(strip(split1(spec, Dash)[1]))
        end_ip   == IPv4Address(strip(split1(spec, Dash)[2]))
    IN  IF ~start_ip.ok \/ ~end_ip.ok THEN Failed
        ELSE range_loop(start_ip.ip, end_ip.ip, <<>>)

\* lines 105-118: range notation
expand_range(spec) ==
    LET start_ip == IPv4Address(strip(split1(spec, Dash)[1]))
        end_ip   == IPv4Address(strip(split1(spec, Dash)[2]))
    IN  IF ~start_ip.ok \/ ~end_ip.ok THEN Failed
        ELSE IF AddrLt(end_ip.ip, start_ip.ip) THEN Failed
        ELSE range_loop(start_ip.ip, end_ip.ip, <<>>)

\* lines 121-124: single IP
expand_single(spec) ==
    IF ~IPv4Address(spec).ok THEN Failed ELSE Returned(<<spec>>)

expand_ip_range(spec) ==
    IF Contains(spec, Slash) THEN expand_cidr(spec)
    ELSE IF Contains(spec, Dash) THEN expand_range(spec)
    ELSE expand_single(spec)

(***************************************************************************)
(* Target specs the model is run on.                                       *)
(***************************************************************************)
GoodAddrs ==
    { <<10, 0, 0, 1>>, <<10, 0, 0, 5>>, <<10, 0, 0, 6>>, <<10, 0, 0, 255>>,
      <<10, 0, 1, 0>>, <<0, 0, 0, 0>>, <<255, 255, 255, 254>>,
      <<255, 255, 255, 255>> }

BadTexts ==
    { <<>>,
      <<49, 48, 46, 48, 46, 48>>,  \* '10.0.0'
      <<49, 48, 46, 48, 46, 48, 46, 50, 53, 54>>,  \* '10.0.0.256'
      <<48, 49, 48, 46, 48, 46, 48, 46, 49>>,  \* '010.0.0.1'
      <<49, 48, 46, 48, 46, 48, 46, 120>>,  \* '10.0.0.x'
      <<49, 48, 46, 46, 48, 46, 49>>,  \* '10..0.1'
      <<49, 48, 46, 48, 46, 48, 46, 49, 46, 49>>,  \* '10.0.0.1.1'
      <<49, 48, 48, 48, 46, 48, 46, 48, 46, 49>>,  \* '1000.0.0.1'
      <<49, 48, 46, 48, 46, 48, 46, 49, 32>> }  \* '10.0.0.1 '

AddrTexts == {AddrStr(a) : a \in GoodAddrs} \cup BadTexts

Separators ==
    { <<Dash>>,
      <<32, 45, 32>>,                                     \* ' - '
      <<10, 45, 13, 12>>,                                 \* '\n-\r\f'
      <<11, 28, 29, 45, 30, 31, 133, 160, 5760>>,         \* '\x0b\x1c\x1d-\x1e\x1f\x85\xa0\u1680'
      <<8192, 8195, 8202, 45, 8232, 8233, 8239, 8287, 12288>>,
                          \* '\u2000\u2003\u200a-\u2028\u2029\u202f\u205f\u3000'
      <<8203, 45>> }      \* '\u200b-' (zero width space: not whitespace)

MaskTexts ==
    { <<50, 52>>, <<50, 51>>, <<50, 57>>, <<51, 48>>, <<51, 49>>,  \* '24', '23', '29', '30', '31'
      <<51, 50>>, <<51, 51>>, <<48, 51, 48>>, <<>>, <<32, 51, 48>>,  \* '32', '33', '030', ' 30'
      <<120>>, <<45, 49>>, <<51, 48, 47, 49>>,  \* '-1', '30/1'
      AddrStr(<<255, 255, 255, 252>>), AddrStr(<<0, 0, 0, 3>>),
      AddrStr(<<255, 0, 255, 0>>), AddrStr(<<255, 255, 255, 255>>),
      AddrStr(<<10, 0, 0, 1>>) }

SingleSpecs == AddrTexts

RangeSpecs ==
    {a \o sep \o b : a \in AddrTexts, sep \in Separators, b \in AddrTexts}
    \cup {AddrStr(<<10, 0, 0, 1>>) \o <<Dash>> \o AddrStr(<<10, 0, 0, 5>>)
            \o <<45, 54>>}  \* '-6'

CidrSpecs == {a \o <<Slash>> \o m : a \in AddrTexts, m \in MaskTexts}

\* the range is short enough, the network small enough, to be enumerated
InBounds(spec) ==
    IF Contains(spec, Slash)
    THEN IPv4Network(spec).ok => IPv4Network(spec).prefixlen >= 32 - MaxHostBits
    ELSE IF Contains(spec, Dash)
    THEN LET s == IPv4Address(strip(split1(spec, Dash)[1]))
             e == IPv4Address(strip(split1(spec, Dash)[2]))
         IN  (s.ok /\ e.ok /\ AddrLe(s.ip, e.ip))
                 => (Hi(e.ip) - Hi(s.ip) <= 1 /\ AddrDiff(s.ip, e.ip) < MaxRangeLen)
    ELSE TRUE

TargetSpecs == {s \in SingleSpecs \cup RangeSpecs \cup CidrSpecs : InBounds(s)}

(***************************************************************************)
(* Specification of expand_ip_range as a function of its argument.         *)
(***************************************************************************)
NoOutcome == [ips |-> <<>>, error |-> "none"]

\* the variables of the functions a specification does not run
IdleExpand == ip_range = <<>> /\ expanded = NoOutcome

\* --file not given
NoFile == [given |-> FALSE, found |-> FALSE, lines |-> <<>>]

NoArgs ==
    [ip_addresses |-> <<>>, file |-> NoFile, timeout |-> 3, count |-> 1,
     workers |-> 10, round_robin |-> FALSE, interval |-> 10]

\* threads: len(_threads); idle: the value of _idle_semaphore; taken: the
\* positions a worker thread has taken from the queue and not yet set running;
\* pinging: the positions whose ping_ip call has started and not yet returned;
\* releasing: the worker threads that have set the result of their task and
\* not yet released the semaphore; fresh: what the thread does that t.start()
\* has started and that is not in _threads (none when there is no such
\* thread), and the position it has taken or runs
NoPool ==
    [threads |-> 0, idle |-> 0, taken |-> {}, pinging |-> {}, releasing |-> 0,
     fresh |-> [state |-> "none", task |-> 0]]

IdleMain == args = NoArgs /\ arg_i = 1 /\ warnings = <<>>

IdleScan ==
    /\ max_workers = 0 /\ futures = <<>> /\ work_queue = <<>> /\ pool = NoPool
    /\ yielded = {} /\ interrupted = FALSE /\ started_after = {}

IdleMonitor ==
    /\ check_count = 0 /\ history = <<>> /\ idx = 0
    /\ output = <<>> /\ sig_at = "none"

IdleProbes == alive = <<>> /\ probe_log = <<>>

NoCall == [results |-> <<>>, show_summary |-> TRUE]

IdlePrint == passed = NoCall

InitExpand ==
    /\ pc = "expand_call"
    /\ ip_range \in TargetSpecs
    /\ expanded = NoOutcome
    /\ ip_addresses = <<>> /\ results = <<>>
    /\ IdleMain /\ IdleScan /\ IdleMonitor /\ IdleProbes /\ IdlePrint

ExpandCall ==
    /\ pc = "expand_call"
    /\ expanded' = expand_ip_range(ip_range)
    /\ pc' = "expand_done"
    /\ UNCHANGED <<passed, ip_range, mainVars, ip_addresses, scanVars, results,
                   monitorVars, alive, probe_log>>

NextExpand == ExpandCall

SpecExpand == InitExpand /\ [][NextExpand]_vars

(***************************************************************************)
(* main: resolution of the target list (lines 381-407), validation of the  *)
(* options (lines 409-420) and the call of one of the two modes.  A file   *)
(* is the sequence of its lines; a file that cannot be opened or read is   *)
(* a file not found.                                                       *)
(***************************************************************************)
MainSpecs ==
    { AddrStr(<<10, 0, 0, 1>>),
      AddrStr(<<10, 0, 0, 5>>) \o <<Dash>> \o AddrStr(<<10, 0, 0, 6>>),
      AddrStr(<<10, 0, 0, 6>>) \o <<Dash>> \o AddrStr(<<10, 0, 0, 5>>),
      AddrStr(<<10, 0, 0, 5>>) \o <<Dash>> \o <<49, 48, 46, 48, 46, 48>>,  \* '10.0.0'
      AddrStr(<<10, 0, 0, 9>>) \o <<47, 51, 48>>,  \* '/30'
      AddrStr(<<10, 0, 0, 9>>) \o <<47, 51, 51>>,  \* '/33'
      <<49, 48, 46, 48, 46, 48, 46, 50, 53, 54>>,  \* '10.0.0.256'
      <<49, 48, 46, 48, 46, 48>>,  \* '10.0.0'
      <<49, 48, 46, 48, 46, 48, 46, 120>> }  \* '10.0.0.x'

ArgLists == UNION {[1..n -> MainSpecs] : n \in 0..MaxArgs}

\* lines 144-153: the addresses of the lines of a file
RECURSIVE read_lines(_)
read_lines(lines) ==
    IF lines = <<>> THEN <<>>
    ELSE LET line == strip(Head(lines)) IN
         (IF line = <<>> \/ line[1] = Hash THEN <<>>
          ELSE IF Contains(line, Slash) \/ Contains(line, Dash)
          THEN expand_ip_range(line).ips
          ELSE <<line>>)
         \o read_lines(Tail(lines))

\* lines 141-159: the list returned, or the exit of lines 154-159
read_ips_from_file(file) ==
    IF file.found THEN [ips |-> read_lines(file.lines), exited |-> FALSE]
    ELSE [ips |-> <<>>, exited |-> TRUE]

FileLines ==
    { << <<35, 32, 99, 111, 109, 109, 101, 110, 116, 10>>,  \* '# comment\n'
         <<49, 48, 46, 48, 46, 48, 46, 49, 10>>,  \* '10.0.0.1\n'
         <<10>>,
         <<49, 48, 46, 48, 46, 48, 46, 53, 45, 49, 48, 46, 48, 46, 48, 46, 54, 10>>,  \* '10.0.0.5-10.0.0.6\n'
         <<110, 111, 116, 45, 97, 110, 45, 105, 112, 10>>,  \* 'not-an-ip\n'
         <<49, 48, 46, 48, 46, 48>> >>,  \* '10.0.0'
      << <<35, 32, 99, 111, 109, 109, 101, 110, 116, 10>>,  \* '# comment\n'
         <<32, 32, 10>>,  \* '  \n'
         <<11, 160, 8195, 10>> >>,  \* '\x0b\xa0\u2003\n'
      << <<49, 48, 46, 48, 46, 48, 46, 54, 45, 49, 48, 46, 48, 46, 48, 46, 53, 10>> >> }  \* '10.0.0.6-10.0.0.5\n'

Files ==
    {NoFile, [given |-> TRUE, found |-> FALSE, lines |-> <<>>]}
    \cup [given : {TRUE}, found : {TRUE}, lines : FileLines]

InitMain ==
    /\ pc = "main_file"
    /\ args \in [ip_addresses : ArgLists, file : Files, timeout : {0, 3},
                 count : {0, 1}, workers : {10}, round_robin : BOOLEAN,
                 interval : {0, 10}]
    /\ arg_i = 1
    /\ ip_addresses = <<>>
    /\ warnings = <<>>
    /\ results = <<>>
    /\ IdleExpand /\ IdleScan /\ IdleMonitor /\ IdleProbes /\ IdlePrint

\* lines 384-390: --file is given; the addresses of the file start the list,
\* and main exits when the file cannot be read or gives no address
ReadFile ==
    /\ pc = "main_file"
    /\ args.file.given
    /\ LET file_ips == read_ips_from_file(args.file) IN
       IF file_ips.exited \/ file_ips.ips = <<>>
       THEN /\ pc' = "exit_1"
            /\ UNCHANGED ip_addresses
       ELSE /\ pc' = "main_resolve"
            /\ ip_addresses' = file_ips.ips
    /\ UNCHANGED <<passed, mainVars, expandVars, scanVars, results, monitorVars,
                   alive, probe_log>>

\* line 384: --file is not given
SkipFile ==
    /\ pc = "main_file"
    /\ ~args.file.given
    /\ pc' = "main_resolve"
    /\ UNCHANGED <<passed, mainVars, ip_addresses, expandVars, scanVars, results,
                   monitorVars, alive, probe_log>>

\* lines 393-402: one iteration of the loop over args.ip_addresses
ResolveArg ==
    /\ pc = "main_resolve"
    /\ arg_i <= Len(args.ip_addresses)
    /\ LET ip_arg == args.ip_addresses[arg_i] IN
       IF Contains(ip_arg, Slash) \/ Contains(ip_arg, Dash)
       THEN LET expanded_ips == expand_ip_range(ip_arg).ips IN
            IF expanded_ips # <<>>
            THEN /\ ip_addresses' = ip_addresses \o expanded_ips
                 /\ UNCHANGED warnings
            ELSE /\ warnings' = Append(warnings, ip_arg)
                 /\ UNCHANGED ip_addresses
       ELSE /\ ip_addresses' = Append(ip_addresses, ip_arg)
            /\ UNCHANGED warnings
    /\ arg_i' = arg_i + 1
    /\ UNCHANGED <<passed, pc, args, expandVars, scanVars, results, monitorVars,
                   alive, probe_log>>

\* lines 404-407: no address at all
NoTargets ==
    /\ pc = "main_resolve"
    /\ arg_i > Len(args.ip_addresses)
    /\ ip_addresses = <<>>
    /\ pc' = "exit_1"
    /\ UNCHANGED <<passed, mainVars, ip_addresses, expandVars, scanVars, results,
                   monitorVars, alive, probe_log>>

\* lines 410-420: timeout, count and interval must be at least 1
InvalidOptions ==
    /\ pc = "main_resolve"
    /\ arg_i > Len(args.ip_addresses)
    /\ ip_addresses # <<>>
    /\ (args.timeout < 1 \/ args.count < 1 \/ args.interval < 1)
    /\ pc' = "exit_1"
    /\ UNCHANGED <<passed, mainVars, ip_addresses, expandVars, scanVars, results,
                   monitorVars, alive, probe_log>>

\* lines 423-429: round robin mode
CallMonitor ==
    /\ pc = "main_resolve"
    /\ arg_i > Len(args.ip_addresses)
    /\ ip_addresses # <<>>
    /\ ~(args.timeout < 1 \/ args.count < 1 \/ args.interval < 1)
    /\ args.round_robin
    /\ pc' = "call_round_robin_monitor"
    /\ UNCHANGED <<passed, mainVars, ip_addresses, expandVars, scanVars, results,
                   monitorVars, alive, probe_log>>

\* lines 433-447: one-time check mode
CallScan ==
    /\ pc = "main_resolve"
    /\ arg_i > Len(args.ip_addresses)
    /\ ip_addresses # <<>>
    /\ ~(args.timeout < 1 \/ args.count < 1 \/ args.interval < 1)
    /\ ~args.round_robin
    /\ pc' = "call_check_ips_parallel"
    /\ UNCHANGED <<passed, mainVars, ip_addresses, expandVars, scanVars, results,
                   monitorVars, alive, probe_log>>

NextMain ==
    \/ ReadFile
    \/ SkipFile
    \/ ResolveArg
    \/ NoTargets
    \/ InvalidOptions
    \/ CallMonitor
    \/ CallScan

SpecMain == InitMain /\ [][NextMain]_vars

(***************************************************************************)
(* ping_ip: the result tuple for each way the ping subprocess can end.     *)
(***************************************************************************)
\* a probe that reported reachable although ping timed out
ping_ip_timeout_alive(ip_address, outcome) ==
    IF outcome = "returncode_0"
    THEN [ip |-> ip_address, is_alive |-> TRUE, message |-> "Alive"]
    ELSE IF outcome = "returncode_nonzero"
    THEN [ip |-> ip_address, is_alive |-> FALSE, message |-> "Not reachable"]
    ELSE IF outcome = "TimeoutExpired"
    THEN [ip |-> ip_address, is_alive |-> TRUE, message |-> "Timeout"]
    ELSE [ip |-> ip_address, is_alive |-> FALSE, message |-> "Error"]

ping_ip(ip_address, outcome) ==
    IF outcome = "returncode_0"
    THEN [ip |-> ip_address, is_alive |-> TRUE, message |-> "Alive"]
    ELSE IF outcome = "returncode_nonzero"
    THEN [ip |-> ip_address, is_alive |-> FALSE, message |-> "Not reachable"]
    ELSE IF outcome = "TimeoutExpired"
    THEN [ip |-> ip_address, is_alive |-> FALSE, message |-> "Timeout"]
    ELSE [ip |-> ip_address, is_alive |-> FALSE, message |-> "Error"]

NoResult == [ip |-> <<>>, is_alive |-> FALSE, message |-> ""]

\* the addresses the scanner and the monitor are run on
AddrA == AddrStr(<<10, 0, 0, 1>>)
AddrB == AddrStr(<<10, 0, 0, 2>>)

\* the lists of at most MaxAddrs addresses, up to renaming the two addresses
AddressLists ==
    {a \in UNION {[1..n -> {AddrA, AddrB}] : n \in 0..MaxAddrs} :
        a = <<>> \/ a[1] = AddrA}

(***************************************************************************)
(* check_ips_parallel.  The main thread creates the executor, submits one  *)
(* task per list position, collects the futures as they complete and       *)
(* leaves the with block (shutdown(wait=True)).  The worker threads of the *)
(* ThreadPoolExecutor take the queued tasks in submission order; a thread  *)
(* runs from t.start() on, before _threads.add(t) makes it one of the      *)
(* threads shutdown joins.  In batch mode SIGINT has its default handler:  *)
(* KeyboardInterrupt is raised in the main thread; raised inside the with  *)
(* block it leaves through the same shutdown, raised while shutdown joins  *)
(* the threads it leaves at once and the worker threads run on.            *)
(***************************************************************************)
InFlight == {p \in 1..Len(futures) : futures[p].state = "running"}

\* the worker threads that are not waiting on the queue
Busy == Cardinality(pool.taken) + Cardinality(InFlight) + pool.releasing

\* the worker threads started so far: those of _threads and the one that
\* t.start() has started and _threads.add(t) has not yet recorded
Started == pool.threads + (IF pool.fresh.state = "none" THEN 0 ELSE 1)

\* the threads of _threads that are not waiting on the queue
JoinedBusy == Busy - (IF pool.fresh.state \in {"none", "waiting"} THEN 0 ELSE 1)

Queued == {work_queue[k] : k \in 1..Len(work_queue)}

\* the futures as_completed iterates over: keys of the dict of lines 182-185,
\* had it been keyed by address (a later future replaces an earlier one)
future_to_ip_by_address(addresses) ==
    {p \in 1..Len(addresses) :
        \A q \in (p + 1)..Len(addresses) : addresses[q] # addresses[p]}

\* the futures as_completed iterates over: lines 182-185, one key per submit
future_to_ip(addresses) == 1..Len(addresses)

\* a thread pool that starts a thread for every task without an idle thread
adjust_thread_count_uncapped(pl, cap) ==
    IF pl.idle > 0 THEN [pl EXCEPT !.idle = @ - 1]
    ELSE [pl EXCEPT !.fresh = [state |-> "waiting", task |-> 0]]

\* ThreadPoolExecutor._adjust_thread_count, called by submit (line 183), up
\* to t.start(): an idle thread is claimed, or a thread is started while
\* len(_threads) is below max_workers
adjust_thread_count(pl, cap) ==
    IF pl.idle > 0 THEN [pl EXCEPT !.idle = @ - 1]
    ELSE IF pl.threads < cap
    THEN [pl EXCEPT !.fresh = [state |-> "waiting", task |-> 0]]
    ELSE pl

\* the ways the pings of a list of n positions end: all reachable, all
\* unreachable, and the four ways in turn from each starting point, so that
\* every position meets every way
OutcomeSeq == <<"returncode_0", "returncode_nonzero", "TimeoutExpired", "Exception">>

OutcomePlans(n) ==
    {[p \in 1..n |-> OutcomeSeq[((p + k) % 4) + 1]] : k \in 0..3}
    \cup {[p \in 1..n |-> "returncode_0"], [p \in 1..n |-> "returncode_nonzero"]}

InitScan ==
    /\ pc = "scan_enter"
    /\ ip_addresses \in AddressLists
    /\ max_workers \in 0..MaxWorkers
    /\ futures = <<>> /\ work_queue = <<>> /\ pool = NoPool
    /\ yielded = {} /\ interrupted = FALSE /\ started_after = {}
    /\ results = <<>>
    /\ alive \in OutcomePlans(Len(ip_addresses))
    /\ probe_log = [p \in 1..Len(ip_addresses) |-> 0]
    /\ IdleExpand /\ IdleMain /\ IdleMonitor /\ IdlePrint

\* lines 176-180: ThreadPoolExecutor(max_workers) raises ValueError for
\* max_workers <= 0
ExecutorInit ==
    /\ pc = "scan_enter"
    /\ pc' = IF max_workers <= 0 THEN "scan_raised" ELSE "scan_submit"
    /\ UNCHANGED <<passed, expandVars, mainVars, ip_addresses, scanVars, results,
                   monitorVars, alive, probe_log>>

\* lines 182-185: executor.submit for the next list position, up to the put
\* of the work item on the queue
Submit ==
    /\ pc = "scan_submit"
    /\ Len(futures) < Len(ip_addresses)
    /\ futures' = Append(futures, [state |-> "pending", result |-> NoResult])
    /\ work_queue' = Append(work_queue, Len(futures) + 1)
    /\ pc' = "scan_adjust"
    /\ UNCHANGED <<passed, expandVars, mainVars, ip_addresses, max_workers, pool,
                   yielded, interrupted, started_after, results, monitorVars,
                   alive, probe_log>>

\* line 183: executor.submit goes on with _adjust_thread_count, which
\* returns at once or starts a thread
AdjustThreadCount ==
    /\ pc = "scan_adjust"
    /\ pool' = adjust_thread_count(pool, max_workers)
    /\ pc' = IF pool'.fresh.state = "none" THEN "scan_submit" ELSE "scan_threads_add"
    /\ UNCHANGED <<passed, expandVars, mainVars, ip_addresses, max_workers, futures,
                   work_queue, yielded, interrupted, started_after, results,
                   monitorVars, alive, probe_log>>

\* line 183: the end of _adjust_thread_count, self._threads.add(t); from here
\* on shutdown joins the thread
ThreadsAdd ==
    /\ pc = "scan_threads_add"
    /\ pool' = [pool EXCEPT !.threads = @ + 1,
                            !.fresh = [state |-> "none", task |-> 0]]
    /\ pc' = "scan_submit"
    /\ UNCHANGED <<passed, expandVars, mainVars, ip_addresses, max_workers, futures,
                   work_queue, yielded, interrupted, started_after, results,
                   monitorVars, alive, probe_log>>

\* lines 185-191: every position is submitted, as_completed starts
AllSubmitted ==
    /\ pc = "scan_submit"
    /\ Len(futures) = Len(ip_addresses)
    /\ pc' = "scan_collect"
    /\ UNCHANGED <<passed, expandVars, mainVars, ip_addresses, scanVars, results,
                   monitorVars, alive, probe_log>>

\* the worker threads run from their start on, whatever the main thread does,
\* also after a KeyboardInterrupt has left check_ips_parallel
WorkersRun ==
    pc \in {"scan_submit", "scan_adjust", "scan_threads_add", "scan_collect",
            "scan_join", "scan_shutdown", "scan_interrupted"}

\* _worker: a worker thread that waits on the queue takes the oldest task: a
\* thread of _threads or the thread just started
WorkerTake ==
    /\ WorkersRun
    /\ work_queue # <<>>
    /\ \/ /\ JoinedBusy < pool.threads
          /\ pool' = [pool EXCEPT !.taken = @ \cup {Head(work_queue)}]
       \/ /\ pool.fresh.state = "waiting"
          /\ pool' = [pool EXCEPT !.taken = @ \cup {Head(work_queue)},
                                  !.fresh = [state |-> "taken",
                                             task |-> Head(work_queue)]]
    /\ work_queue' = Tail(work_queue)
    /\ UNCHANGED <<passed, pc, expandVars, mainVars, ip_addresses, max_workers, futures,
                   yielded, interrupted, started_after, results, monitorVars,
                   alive, probe_log>>

\* _WorkItem.run, its first statement: set_running_or_notify_cancel sets
\* the future running (no future is ever cancelled: the code calls neither
\* Future.cancel nor shutdown(cancel_futures=True))
WorkerSetRunning ==
    /\ WorkersRun
    /\ \E p \in pool.taken :
           /\ futures' = [futures EXCEPT ![p].state = "running"]
           /\ pool' = [pool EXCEPT !.taken = @ \ {p},
                                   !.fresh.state =
                                       IF pool.fresh.task = p THEN "running" ELSE @]
    /\ UNCHANGED <<passed, pc, expandVars, mainVars, ip_addresses, max_workers,
                   work_queue, yielded, interrupted, started_after, results,
                   monitorVars, alive, probe_log>>

\* _WorkItem.run, its second statement: the worker thread calls
\* ping_ip(ip, timeout, count) for the future it has set running (the
\* callable of line 183)
WorkerStart ==
    /\ WorkersRun
    /\ \E p \in InFlight \ pool.pinging :
           /\ pool' = [pool EXCEPT !.pinging = @ \cup {p}]
           /\ probe_log' = [probe_log EXCEPT ![p] = @ + 1]
           /\ started_after' = IF interrupted THEN started_after \cup {p}
                               ELSE started_after
    /\ UNCHANGED <<passed, pc, expandVars, mainVars, ip_addresses, max_workers,
                   futures, work_queue, yielded, interrupted, results,
                   monitorVars, alive>>

\* ping_ip returns in a worker thread and set_result finishes the future
WorkerFinish ==
    /\ WorkersRun
    /\ \E p \in pool.pinging :
           /\ futures' = [futures EXCEPT
                             ![p] = [state |-> "finished",
                                     result |-> ping_ip(ip_addresses[p], alive[p])]]
           /\ pool' = [pool EXCEPT !.pinging = @ \ {p},
                                   !.releasing = @ + 1,
                                   !.fresh =
                                       IF pool.fresh.task = p
                                       THEN [state |-> "releasing", task |-> 0]
                                       ELSE @]
    /\ UNCHANGED <<passed, pc, expandVars, mainVars, ip_addresses, max_workers,
                   work_queue, yielded, interrupted, started_after, results,
                   monitorVars, alive, probe_log>>

\* the worker thread releases the idle semaphore and waits on the queue again
WorkerRelease ==
    /\ WorkersRun
    /\ \/ /\ pool.releasing > (IF pool.fresh.state = "releasing" THEN 1 ELSE 0)
          /\ pool' = [pool EXCEPT !.releasing = @ - 1, !.idle = @ + 1]
       \/ /\ pool.fresh.state = "releasing"
          /\ pool' = [pool EXCEPT !.releasing = @ - 1, !.idle = @ + 1,
                                  !.fresh = [state |-> "waiting", task |-> 0]]
    /\ UNCHANGED <<passed, pc, expandVars, mainVars, ip_addresses, max_workers, futures,
                   work_queue, yielded, interrupted, started_after, results,
                   monitorVars, alive, probe_log>>

\* lines 191-194: as_completed yields a finished future, its result is appended
Collect ==
    /\ pc = "scan_collect"
    /\ \E p \in future_to_ip(ip_addresses) \ yielded :
           /\ futures[p].state = "finished"
           /\ results' = Append(results, futures[p].result)
           /\ yielded' = yielded \cup {p}
    /\ UNCHANGED <<passed, pc, expandVars, mainVars, ip_addresses, max_workers, futures,
                   work_queue, pool, interrupted, started_after, monitorVars,
                   alive, probe_log>>

\* lines 191-201: as_completed is exhausted and the with block is left:
\* __exit__(None, None, None) calls shutdown(wait=True)
CollectDone ==
    /\ pc = "scan_collect"
    /\ future_to_ip(ip_addresses) \subseteq yielded
    /\ pc' = "scan_join"
    /\ UNCHANGED <<passed, expandVars, mainVars, ip_addresses, scanVars, results,
                   monitorVars, alive, probe_log>>

\* shutdown(wait=True) has joined every thread of _threads: a worker thread
\* ends when it finds the queue without a task
Joined == pool.threads = 0 \/ (work_queue = <<>> /\ JoinedBusy = 0)

\* lines 201-203: the threads are joined and the result list is returned
Return ==
    /\ pc = "scan_join"
    /\ Joined
    /\ pc' = "scan_returned"
    /\ UNCHANGED <<passed, expandVars, mainVars, ip_addresses, scanVars, results,
                   monitorVars, alive, probe_log>>

\* SIGINT while the main thread is inside the with block: KeyboardInterrupt
\* enters ThreadPoolExecutor.__exit__, which calls shutdown(wait=True)
Interrupt ==
    /\ pc \in {"scan_submit", "scan_adjust", "scan_threads_add", "scan_collect"}
    /\ interrupted' = TRUE
    /\ pc' = "scan_shutdown"
    /\ UNCHANGED <<passed, expandVars, mainVars, ip_addresses, max_workers, futures,
                   work_queue, pool, yielded, started_after, results,
                   monitorVars, alive, probe_log>>

\* SIGINT while the main thread is outside the body of the with block, before
\* the executor is created or inside __exit__ while shutdown joins the
\* threads: KeyboardInterrupt leaves check_ips_parallel at once, whatever the
\* worker threads are doing
InterruptOutside ==
    /\ pc \in {"scan_enter", "scan_join", "scan_shutdown"}
    /\ interrupted' = TRUE
    /\ pc' = "scan_interrupted"
    /\ UNCHANGED <<passed, expandVars, mainVars, ip_addresses, max_workers, futures,
                   work_queue, pool, yielded, started_after, results,
                   monitorVars, alive, probe_log>>

\* shutdown(wait=True) has joined the threads of _threads, which first ran
\* every queued task (a pool with no thread in _threads has nothing to join
\* and leaves the queue as it is); the KeyboardInterrupt leaves
\* check_ips_parallel
Propagate ==
    /\ pc = "scan_shutdown"
    /\ Joined
    /\ pc' = "scan_interrupted"
    /\ UNCHANGED <<passed, expandVars, mainVars, ip_addresses, scanVars, results,
                   monitorVars, alive, probe_log>>

NextScan ==
    \/ ExecutorInit
    \/ Submit
    \/ AdjustThreadCount
    \/ ThreadsAdd
    \/ AllSubmitted
    \/ WorkerTake
    \/ WorkerSetRunning
    \/ WorkerStart
    \/ WorkerFinish
    \/ WorkerRelease
    \/ Collect
    \/ CollectDone
    \/ Return
    \/ Interrupt
    \/ InterruptOutside
    \/ Propagate

SpecScan == InitScan /\ [][NextScan]_vars

(***************************************************************************)
(* print_results, as far as it changes the list it is given: line 221      *)
(* sorts the caller's list in place by the text of the address.            *)
(***************************************************************************)
\* a < b on str
RECURSIVE StrLt(_, _)
StrLt(a, b) ==
    IF b = <<>> THEN FALSE
    ELSE IF a = <<>> THEN TRUE
    ELSE IF a[1] # b[1] THEN a[1] < b[1]
    ELSE StrLt(Tail(a), Tail(b))

\* insertion of r after the entries whose key is not greater (stable)
RECURSIVE InsertByIp(_, _)
InsertByIp(sorted, r) ==
    IF sorted = <<>> THEN <<r>>
    ELSE IF StrLt(r.ip, Head(sorted).ip) THEN <<r>> \o sorted
    ELSE <<Head(sorted)>> \o InsertByIp(Tail(sorted), r)

\* the results left in the order of completion
completion_order(rs) == rs

\* results.sort(key=lambda x: x[0])
RECURSIVE sort_by_ip(_)
sort_by_ip(rs) ==
    IF rs = <<>> THEN <<>>
    ELSE InsertByIp(sort_by_ip(SubSeq(rs, 1, Len(rs) - 1)), rs[Len(rs)])

(***************************************************************************)
(* print_results: what it prints (the rows and, with show_summary, the     *)
(* summary) and the list it leaves to its caller.  A rate is kept in       *)
(* tenths of a percent, as the format .1f prints it.                       *)
(***************************************************************************)
\* lines 233-245 with every result counted, reachable or not
count_alive_all(rs) == Len(rs)

\* lines 233-245: alive_count
RECURSIVE count_alive(_)
count_alive(rs) ==
    IF rs = <<>> THEN 0
    ELSE (IF Head(rs).is_alive THEN 1 ELSE 0) + count_alive(Tail(rs))

NoSummary ==
    [computed |-> FALSE, alive_count |-> 0, total_count |-> 0, dead_count |-> 0,
     success_rate |-> 0, raised |-> "none"]

\* lines 249-256: the summary; the division raises for total_count = 0
summarize(rs) ==
    IF Len(rs) = 0
    THEN [computed |-> TRUE, alive_count |-> count_alive(rs), total_count |-> 0,
          dead_count |-> 0 - count_alive(rs), success_rate |-> 0,
          raised |-> "ZeroDivisionError"]
    ELSE [computed |-> TRUE, alive_count |-> count_alive(rs),
          total_count |-> Len(rs), dead_count |-> Len(rs) - count_alive(rs),
          success_rate |-> format_1f(count_alive(rs), Len(rs)),
          raised |-> "none"]

\* print_results without the test of lines 216-218
print_results_unguarded(rs, show_summary) ==
    [kind |-> "results", lines |-> sort_by_ip(rs),
     summary |-> IF show_summary THEN summarize(sort_by_ip(rs)) ELSE NoSummary]

\* lines 216-256: what is printed
print_results(rs, show_summary) ==
    IF rs = <<>>
    THEN [kind |-> "no_results", lines |-> <<>>, summary |-> NoSummary]
    ELSE [kind |-> "results", lines |-> sort_by_ip(rs),
          summary |-> IF show_summary THEN summarize(sort_by_ip(rs))
                      ELSE NoSummary]

\* lines 216-221: the caller's list after the call
results_after_print(rs) == IF rs = <<>> THEN rs ELSE sort_by_ip(rs)

AddrC == AddrStr(<<10, 0, 0, 10>>)

\* host names, which main passes on as they are (line 402)
HostNames == { <<110, 97, 115>>, <<78, 65, 83>>, <<110, 97, 116>> }  \* 'nas', 'NAS', 'nat'

PrintRows ==
    {ping_ip(ip, o) : ip \in {AddrA, AddrB, AddrC},
                      o \in {"returncode_0", "returncode_nonzero"}}
    \cup {ping_ip(ip, "returncode_nonzero") : ip \in HostNames}

ResultLists == UNION {[1..n -> PrintRows] : n \in 0..MaxResults}

InitPrint ==
    /\ pc = "print_call"
    /\ results \in ResultLists
    /\ passed \in [results : {results}, show_summary : BOOLEAN]
    /\ output = <<>>
    /\ ip_addresses = <<>>
    /\ check_count = 0 /\ history = <<>> /\ idx = 0 /\ sig_at = "none"
    /\ IdleExpand /\ IdleMain /\ IdleScan /\ IdleProbes

\* lines 206-256: one call of print_results on the list results
PrintCall ==
    /\ pc = "print_call"
    /\ output' = Append(output, print_results(results, passed.show_summary))
    /\ results' = results_after_print(results)
    /\ pc' = "print_done"
    /\ UNCHANGED <<passed, expandVars, mainVars, ip_addresses, scanVars,
                   check_count, history, idx, sig_at, alive, probe_log>>

NextPrint == PrintCall

SpecPrint == InitPrint /\ [][NextPrint]_vars

(***************************************************************************)
(* round_robin_monitor.  The state after lines 269-283: the handler of     *)
(* SIGINT is installed, check_count is 0 and every address of the list has *)
(* an empty history.  What the network answers is fixed per list position  *)
(* and cycle by one of a few reachability patterns.                        *)
(***************************************************************************)
HistoryCapacity == 10    \* line 301
UptimeEvery == 10        \* line 308

Patterns ==
    { [c \in 1..MaxCycles |-> TRUE],
      [c \in 1..MaxCycles |-> FALSE],
      [c \in 1..MaxCycles |-> c % 2 = 1],
      [c \in 1..MaxCycles |-> c % 3 = 0],
      [c \in 1..MaxCycles |-> c <= 5] }

MonitorLists == UNION {[1..n -> {AddrA, AddrB}] : n \in 1..MaxMonitored}

AddressesOf(addresses) == {addresses[k] : k \in 1..Len(addresses)}

\* sum(h) for a list of booleans
RECURSIVE SumTrue(_)
SumTrue(h) ==
    IF h = <<>> THEN 0 ELSE (IF Head(h) THEN 1 ELSE 0) + SumTrue(Tail(h))

\* (sum(h) / len(h)) * 100 as printed with one decimal, in tenths of a percent
uptime(h) == format_1f(SumTrue(h), Len(h))

\* the statistics printed in the first cycle of every ten
uptime_due_first(n) == n % UptimeEvery = 1

\* line 308: if check_count % 10 == 0
uptime_due(n) == n % UptimeEvery = 0

\* the addresses of the list whose history is not empty, in list order
RECURSIVE SelectAddrs(_, _)
SelectAddrs(addresses, hist) ==
    IF addresses = <<>> THEN <<>>
    ELSE (IF hist[Head(addresses)] # <<>> THEN <<Head(addresses)>> ELSE <<>>)
         \o SelectAddrs(Tail(addresses), hist)

\* lines 310-313: one uptime line per address of the list with a history
uptime_statistics(addresses, hist) ==
    [k \in 1..Len(SelectAddrs(addresses, hist)) |->
        [ip |-> SelectAddrs(addresses, hist)[k],
         uptime |-> uptime(hist[SelectAddrs(addresses, hist)[k]])]]

\* lines 325-330: one final line per address of the list with a history
final_statistics(addresses, hist) ==
    [k \in 1..Len(SelectAddrs(addresses, hist)) |->
        [ip |-> SelectAddrs(addresses, hist)[k],
         successful_checks |-> SumTrue(hist[SelectAddrs(addresses, hist)[k]]),
         total_checks |-> Len(hist[SelectAddrs(addresses, hist)[k]]),
         uptime |-> uptime(hist[SelectAddrs(addresses, hist)[k]])]]

\* eviction that lets the window grow one entry too far
evict_late(h) == IF Len(h) > HistoryCapacity + 1 THEN Tail(h) ELSE h

\* lines 301-302: drop the oldest entry of a window that exceeds 10 entries
evict(h) == IF Len(h) > HistoryCapacity THEN Tail(h) ELSE h

InitMonitor ==
    /\ pc = "monitor_start"
    /\ ip_addresses \in MonitorLists
    /\ alive \in [1..Len(ip_addresses) -> Patterns]
    /\ check_count = 0
    /\ history = [ip \in AddressesOf(ip_addresses) |-> <<>>]
    /\ idx = 0
    /\ results = <<>>
    /\ probe_log = <<>>
    /\ output = <<>>
    /\ sig_at = "none"
    /\ IdleExpand /\ IdleMain /\ IdleScan /\ IdlePrint

\* lines 286-292: the sleep (if any) is over, the next cycle begins
CycleStart ==
    /\ pc \in {"monitor_start", "monitor_sleep"}
    /\ check_count < MaxCycles
    /\ check_count' = check_count + 1
    /\ results' = <<>>
    /\ idx' = 1
    /\ pc' = "monitor_probe"
    /\ UNCHANGED <<passed, expandVars, mainVars, ip_addresses, scanVars, history,
                   output, sig_at, alive, probe_log>>

\* lines 294-296: ping_ip is called for the next address and starts the ping
\* subprocess, for which it then waits
Probe ==
    /\ pc = "monitor_probe"
    /\ probe_log' = Append(probe_log, <<check_count, idx>>)
    /\ pc' = "monitor_ping"
    /\ UNCHANGED <<passed, expandVars, mainVars, ip_addresses, scanVars, check_count,
                   history, idx, results, output, sig_at, alive>>

\* lines 296-297: ping_ip returns and the result is appended to the results
\* of the cycle
ProbeReturn ==
    /\ pc = "monitor_ping"
    /\ results' = Append(results,
                         ping_ip(ip_addresses[idx],
                                 IF alive[idx][check_count] THEN "returncode_0"
                                 ELSE "returncode_nonzero"))
    /\ pc' = "monitor_record"
    /\ UNCHANGED <<passed, expandVars, mainVars, ip_addresses, scanVars, check_count,
                   history, idx, output, sig_at, alive, probe_log>>

\* line 300: the status of the result is appended to the history of the
\* address
Record ==
    /\ pc = "monitor_record"
    /\ history' = [history EXCEPT ![ip_addresses[idx]] =
                       Append(@, results[Len(results)].is_alive)]
    /\ pc' = "monitor_evict"
    /\ UNCHANGED <<passed, expandVars, mainVars, ip_addresses, scanVars, check_count,
                   idx, results, output, sig_at, alive, probe_log>>

\* lines 301-302 and the step of the for loop of line 294
Evict ==
    /\ pc = "monitor_evict"
    /\ history' = [history EXCEPT ![ip_addresses[idx]] = evict(@)]
    /\ idx' = idx + 1
    /\ pc' = IF idx = Len(ip_addresses) THEN "monitor_print" ELSE "monitor_probe"
    /\ UNCHANGED <<passed, expandVars, mainVars, ip_addresses, scanVars, check_count,
                   results, output, sig_at, alive, probe_log>>

\* line 305: print_results prints the results of the cycle, sorted, with
\* their summary
PrintResults ==
    /\ pc = "monitor_print"
    /\ output' = Append(output,
                        [kind |-> print_results(results, TRUE).kind,
                         check_count |-> check_count,
                         lines |-> print_results(results, TRUE).lines,
                         summary |-> print_results(results, TRUE).summary])
    /\ results' = results_after_print(results)
    /\ pc' = "monitor_uptime"
    /\ UNCHANGED <<passed, expandVars, mainVars, ip_addresses, scanVars, check_count,
                   history, idx, sig_at, alive, probe_log>>

\* lines 307-318: the uptime statistics of every 10th cycle, then the sleep
UptimeStatistics ==
    /\ pc = "monitor_uptime"
    /\ output' = IF uptime_due(check_count)
                 THEN Append(output,
                             [kind |-> "uptime", check_count |-> check_count,
                              lines |-> uptime_statistics(ip_addresses, history)])
                 ELSE output
    /\ pc' = "monitor_sleep"
    /\ UNCHANGED <<passed, expandVars, mainVars, ip_addresses, scanVars, check_count,
                   history, idx, results, sig_at, alive, probe_log>>

MonitorRunning ==
    pc \in {"monitor_start", "monitor_probe", "monitor_ping", "monitor_record",
            "monitor_evict", "monitor_print",
            "monitor_uptime", "monitor_sleep"}

\* lines 275-279: SIGINT runs signal_handler, which prints and calls
\* sys.exit(0); SystemExit is not a KeyboardInterrupt, so the except clause
\* of line 320 does not catch it and the process exits
Sigint ==
    /\ MonitorRunning
    /\ sig_at' = pc
    /\ output' = Append(output, [kind |-> "stopped", check_count |-> check_count,
                                 lines |-> <<>>])
    /\ pc' = "monitor_exit_0"
    /\ UNCHANGED <<passed, expandVars, mainVars, ip_addresses, scanVars, check_count,
                   history, idx, results, alive, probe_log>>

\* lines 320-330: the handler of KeyboardInterrupt.  No step of the monitor
\* raises KeyboardInterrupt once signal_handler is installed, so this action
\* is not a disjunct of NextMonitor.
FinalStatistics ==
    /\ pc = "monitor_KeyboardInterrupt"
    /\ output' = output
           \o << [kind |-> "stopped", check_count |-> check_count, lines |-> <<>>],
                 [kind |-> "final", check_count |-> check_count,
                  lines |-> final_statistics(ip_addresses, history)] >>
    /\ pc' = "monitor_returned"
    /\ UNCHANGED <<passed, expandVars, mainVars, ip_addresses, scanVars, check_count,
                   history, idx, results, sig_at, alive, probe_log>>

NextMonitor ==
    \/ CycleStart
    \/ Probe
    \/ ProbeReturn
    \/ Record
    \/ Evict
    \/ PrintResults
    \/ UptimeStatistics
    \/ Sigint

SpecMonitor == InitMonitor /\ [][NextMonitor]_vars

(***************************************************************************)
(* Properties of expand_ip_range.                                          *)
(***************************************************************************)
IsRangeSpec(spec) == ~Contains(spec, Slash) /\ Contains(spec, Dash)

RangeStart(spec) == IPv4Address(strip(split1(spec, Dash)[1]))
RangeEnd(spec)   == IPv4Address(strip(split1(spec, Dash)[2]))

ValidRange(spec) ==
    /\ IsRangeSpec(spec)
    /\ RangeStart(spec).ok /\ RangeEnd(spec).ok
    /\ AddrLe(RangeStart(spec).ip, RangeEnd(spec).ip)

BadRange(spec) ==
    /\ IsRangeSpec(spec)
    /\ \/ ~RangeStart(spec).ok
       \/ ~RangeEnd(spec).ok
       \/ AddrLt(RangeEnd(spec).ip, RangeStart(spec).ip)

\* C7: a valid range spec start-end with start <= end expands to exactly
\* numeric(end) - numeric(start) + 1 addresses, start, start+1, ..., end, in
\* ascending order.
C7_RangeExpansion ==
    (pc = "expand_done" /\ ValidRange(ip_range)) =>
        /\ Len(expanded.ips)
               = AddrDiff(RangeStart(ip_range).ip, RangeEnd(ip_range).ip) + 1
        /\ \A k \in 1..Len(expanded.ips) :
               /\ AddrAdd(RangeStart(ip_range).ip, k - 1).ok
               /\ expanded.ips[k]
                      = AddrStr(AddrAdd(RangeStart(ip_range).ip, k - 1).ip)

IsCidrSpec(spec) == Contains(spec, Slash) /\ IPv4Network(spec).ok

\* every address of the network of a valid CIDR spec
NetworkAddrs(spec) ==
    {AddrAdd(IPv4Network(spec).network_address, j).ip :
        j \in 0..(Pow2(32 - IPv4Network(spec).prefixlen) - 1)}

NetworkEnds(spec) ==
    {IPv4Network(spec).network_address,
     AddrAdd(IPv4Network(spec).network_address,
             Pow2(32 - IPv4Network(spec).prefixlen) - 1).ip}

\* the list holds well-formed addresses in strictly ascending numeric order
Ascending(ips) ==
    /\ \A k \in 1..Len(ips) : IPv4Address(ips[k]).ok
    /\ \A k \in 1..(Len(ips) - 1) :
           AddrLt(IPv4Address(ips[k]).ip, IPv4Address(ips[k + 1]).ip)

AddrSet(ips) == {IPv4Address(ips[k]).ip : k \in 1..Len(ips)}

\* C8 as stated: for every prefix length the expansion of a valid CIDR spec
\* is, in ascending order, every address of the network except the network
\* address and the broadcast address.
C8_HostsEveryPrefix ==
    (pc = "expand_done" /\ IsCidrSpec(ip_range)) =>
        /\ expanded.error = "none"
        /\ Ascending(expanded.ips)
        /\ AddrSet(expanded.ips) = NetworkAddrs(ip_range) \ NetworkEnds(ip_range)

\* C8 amended: for a prefix length of at most 30 the expansion is, in
\* ascending order, every address of the network except the network address
\* and the broadcast address (254 addresses for a /24); for a /31 it is both
\* addresses of the network and for a /32 the single address.
C8_Hosts ==
    (pc = "expand_done" /\ IsCidrSpec(ip_range)) =>
        /\ expanded.error = "none"
        /\ Ascending(expanded.ips)
        /\ AddrSet(expanded.ips) =
               IF IPv4Network(ip_range).prefixlen >= 31
               THEN NetworkAddrs(ip_range)
               ELSE NetworkAddrs(ip_range) \ NetworkEnds(ip_range)
        /\ IPv4Network(ip_range).prefixlen = 24 => Len(expanded.ips) = 254

C8_Witness ==
    /\ pc = "expand_done"
    /\ IsCidrSpec(ip_range)
    /\ IPv4Network(ip_range).prefixlen = 24
    /\ Len(expanded.ips) = 254
    /\ expanded.ips[1] = AddrStr(<<10, 0, 0, 1>>)
    /\ expanded.ips[254] = AddrStr(<<10, 0, 0, 254>>)

\* C9: a range spec whose start exceeds its end, or whose start or end is
\* malformed, yields no address and reports an error; no range spec expands
\* without error to the empty list, so the caller can tell the two apart.
C9_RangeError ==
    (pc = "expand_done" /\ IsRangeSpec(ip_range)) =>
        /\ BadRange(ip_range) =>
               (expanded.ips = <<>> /\ expanded.error # "none")
        /\ expanded.error = "none" => expanded.ips # <<>>

C9_Witness ==
    /\ pc = "expand_done"
    /\ IsRangeSpec(ip_range)
    /\ RangeStart(ip_range).ok /\ RangeEnd(ip_range).ok
    /\ AddrLt(RangeEnd(ip_range).ip, RangeStart(ip_range).ip)
    /\ expanded = Failed

(***************************************************************************)
(* Properties of the target resolution of main.                            *)
(***************************************************************************)
\* the lines of a file that are target specs
RECURSIVE SpecsOfFile(_)
SpecsOfFile(lines) ==
    IF lines = <<>> THEN <<>>
    ELSE (IF strip(Head(lines)) = <<>> \/ strip(Head(lines))[1] = Hash THEN <<>>
          ELSE <<strip(Head(lines))>>)
         \o SpecsOfFile(Tail(lines))

\* the target specs of a run: those of the file, then those of the command
\* line
Declared ==
    (IF args.file.given /\ args.file.found THEN SpecsOfFile(args.file.lines)
     ELSE <<>>) \o args.ip_addresses

\* the expansions of the well-formed specs of a list, in declaration order
RECURSIVE Flatten(_)
Flatten(specs) ==
    IF specs = <<>> THEN <<>>
    ELSE expand_ip_range(Head(specs)).ips \o Flatten(Tail(specs))

\* C10: when main hands the address list to check_ips_parallel or to
\* round_robin_monitor, every malformed spec (single address, range or CIDR)
\* has been skipped, the other specs are expanded in declaration order, and
\* every address of the list is a syntactically valid address.
C10_OnlyValidAddresses ==
    pc \in {"call_check_ips_parallel", "call_round_robin_monitor"} =>
        /\ ip_addresses = Flatten(Declared)
        /\ \A k \in 1..Len(ip_addresses) : IPv4Address(ip_addresses[k]).ok

\* C13: once main has resolved its arguments, a timeout, count or interval
\* below 1, or a list of specs none of which expands to an address, has made
\* main exit with status 1 instead of calling check_ips_parallel or
\* round_robin_monitor, in one-time mode and in round robin mode alike.
C13_ConfigErrorExits ==
    (pc \notin {"main_file", "main_resolve"}
        /\ (\/ args.timeout < 1
            \/ args.count < 1
            \/ args.interval < 1
            \/ Flatten(Declared) = <<>>)) =>
        pc = "exit_1"

(***************************************************************************)
(* Properties of check_ips_parallel.                                       *)
(***************************************************************************)
\* number of entries of a list of results that carry a given address
RECURSIVE CountIp(_, _)
CountIp(rs, ip) ==
    IF rs = <<>> THEN 0
    ELSE (IF Head(rs).ip = ip THEN 1 ELSE 0) + CountIp(Tail(rs), ip)

Occurrences(seq, x) == Cardinality({k \in 1..Len(seq) : seq[k] = x})

\* C4: check_ips_parallel returns exactly len(addresses) results, also with
\* repeated addresses: ping_ip is never called twice for a list position,
\* and when the call returns it has been called once for every position and
\* every address has as many results as it has positions.
C4_OneResultPerPosition ==
    /\ \A p \in 1..Len(ip_addresses) : probe_log[p] <= 1
    /\ pc = "scan_returned" =>
           /\ Len(results) = Len(ip_addresses)
           /\ \A p \in 1..Len(ip_addresses) :
                  probe_log[p] = 1 /\ p \notin pool.pinging
           /\ \A p \in 1..Len(ip_addresses) :
                  CountIp(results, ip_addresses[p])
                      = Occurrences(ip_addresses, ip_addresses[p])

C4_Witness ==
    /\ pc = "scan_returned"
    /\ Len(ip_addresses) = 3
    /\ ip_addresses[1] = ip_addresses[3]
    /\ Len(results) = 3

\* C5: at every moment at most max_workers ping_ip calls have started and
\* not yet returned, and at most max_workers positions are taken by a worker
\* thread (taken from the queue, set running or being pinged) and not yet
\* completed; a submitted position that no worker thread has taken waits in
\* the queue.
C5_BoundedInFlight ==
    /\ Cardinality(pool.pinging) <= max_workers
    /\ pool.pinging \subseteq InFlight
    /\ Cardinality(InFlight \cup pool.taken) <= max_workers
    /\ Busy <= Started /\ Started <= max_workers
    /\ \A p \in 1..Len(futures) :
           futures[p].state = "pending" <=> (p \in Queued \/ p \in pool.taken)
    /\ \A p \in Queued : p \notin pool.taken

C5_Witness ==
    /\ max_workers >= 1
    /\ Cardinality(pool.pinging) = max_workers
    /\ work_queue # <<>>

\* C6: no queued probe is started after the cancellation of a
\* check_ips_parallel call.
C6_NoStartAfterCancel == started_after = {}

\* C16: a probe that ends with a non-zero exit status, a timeout or any
\* other exception gives a result that is not alive with the message
\* 'Not reachable', 'Timeout' or 'Error: ...'; it never makes
\* check_ips_parallel raise, and when the call returns every address of the
\* list has been probed and is reported.
C16_FailedProbeReported ==
    /\ \A p \in 1..Len(futures) :
           futures[p].state = "finished" =>
               /\ futures[p].result.ip = ip_addresses[p]
               /\ futures[p].result.is_alive <=> futures[p].result.message = "Alive"
               /\ ~futures[p].result.is_alive =>
                      futures[p].result.message
                          \in {"Not reachable", "Timeout", "Error"}
    /\ pc = "scan_raised" => futures = <<>>
    /\ pc = "scan_returned" =>
           /\ Len(results) = Len(ip_addresses)
           /\ \A p \in 1..Len(ip_addresses) :
                  /\ futures[p].state = "finished"
                  /\ \E k \in 1..Len(results) : results[k] = futures[p].result

C16_Witness ==
    /\ pc = "scan_returned" /\ Len(results) = 3
    /\ results[1].message = "Error" /\ ~results[1].is_alive
    /\ results[2].message = "Timeout" /\ ~results[2].is_alive
    /\ results[3].message = "Alive"

\* C19: a call of check_ips_parallel that is not cancelled does not end
\* other than by returning, and when it returns no probe is queued or in
\* flight and the list returned holds a result for every list position.
C19_ReturnsComplete ==
    ~interrupted =>
        /\ pc # "scan_raised"
        /\ pc = "scan_returned" =>
               /\ work_queue = <<>> /\ InFlight = {} /\ pool.taken = {}
               /\ Len(results) = Len(ip_addresses)
               /\ \A p \in 1..Len(ip_addresses) : futures[p].state = "finished"

(***************************************************************************)
(* Properties of round_robin_monitor.                                      *)
(***************************************************************************)
\* the statistics blocks of a given kind printed so far
Blocks(kind) == {k \in 1..Len(output) : output[k].kind = kind}

\* C1: when SIGINT arrives during the sleep after at least one completed
\* cycle, the monitor has printed, by the time the process has terminated,
\* a final statistics line for every monitored address, computed from the
\* history of that address at the cancellation.
C1_FinalStatisticsOnCancel ==
    (pc = "monitor_exit_0" /\ sig_at = "monitor_sleep" /\ check_count >= 1) =>
        \E b \in Blocks("final") :
            \A ip \in AddressesOf(ip_addresses) :
                \E k \in 1..Len(output[b].lines) :
                    /\ output[b].lines[k].ip = ip
                    /\ output[b].lines[k].successful_checks = SumTrue(history[ip])
                    /\ output[b].lines[k].total_checks = Len(history[ip])

\* C2 as stated: in every reachable state, also between the append and the
\* eviction, every history window holds at most 10 entries.
C2_WindowAtMostTen ==
    \A ip \in DOMAIN history : Len(history[ip]) <= HistoryCapacity

\* the monitor is, or was stopped by SIGINT, between the append of line 300
\* and the eviction of lines 301-302
BeforeEviction ==
    \/ pc = "monitor_evict"
    \/ pc = "monitor_exit_0" /\ sig_at = "monitor_evict"

\* C2 amended: every history window holds at most 10 entries, except that
\* between the append of a result and the eviction that follows it the
\* window of the address just probed may hold 11.
C2_WindowBound ==
    \A ip \in DOMAIN history :
        Len(history[ip]) <=
            IF BeforeEviction /\ ip = ip_addresses[idx]
            THEN HistoryCapacity + 1 ELSE HistoryCapacity

C2_Witness ==
    /\ pc = "monitor_sleep"
    /\ check_count > HistoryCapacity
    /\ \A ip \in DOMAIN history : Len(history[ip]) = HistoryCapacity

\* C3: after n completed cycles the window of the address of every list
\* position has length min(n, 10) and holds, oldest first, the results of
\* that position in the cycles max(1, n-9) .. n.
C3_WindowHoldsLastCycles ==
    pc \in {"monitor_print", "monitor_uptime", "monitor_sleep"} =>
        \A p \in 1..Len(ip_addresses) :
            /\ Len(history[ip_addresses[p]]) = Min(check_count, HistoryCapacity)
            /\ \A k \in 1..Len(history[ip_addresses[p]]) :
                   history[ip_addresses[p]][k]
                       = alive[p][Max(1, check_count - 9) + k - 1]

\* where the monitor is, or was when SIGINT stopped it
Stage == IF pc = "monitor_exit_0" THEN sig_at ELSE pc

\* C14: when SIGINT arrives at any point of a monitoring cycle, between or
\* during the probes, the monitor has printed, by the time the process has
\* terminated, a final line {successful_checks, total_checks} for every
\* address of the list, taken from the history of that address at the
\* cancellation.
C14_FinalSummaryInCycle ==
    (pc = "monitor_exit_0"
        /\ sig_at \in {"monitor_probe", "monitor_ping", "monitor_record",
                       "monitor_evict", "monitor_print", "monitor_uptime"}) =>
        /\ output # <<>>
        /\ output[Len(output)].kind = "final"
        /\ \A ip \in AddressesOf(ip_addresses) :
               \E k \in 1..Len(output[Len(output)].lines) :
                   LET line == output[Len(output)].lines[k]
                   IN  /\ line.ip = ip
                       /\ line.total_checks = Len(history[ip])
                       /\ line.successful_checks
                              = Cardinality({j \in 1..Len(history[ip]) :
                                                 history[ip][j]})

\* C15: when a cycle reaches its sleep, the uptime statistics of that cycle
\* have been printed if and only if check_count % 10 = 0, they follow the
\* results of that cycle directly, and the value of every address is the
\* number of true entries of its history over the length of its history,
\* times 100, to the printed tenth.
C15_UptimeEveryTenth ==
    /\ \A b \in Blocks("uptime") : output[b].check_count % 10 = 0
    /\ pc = "monitor_sleep" =>
           LET n == Len(output)
           IN  IF check_count % 10 = 0
               THEN /\ n >= 2
                    /\ output[n].kind = "uptime"
                    /\ output[n].check_count = check_count
                    /\ output[n - 1].kind = "results"
                    /\ output[n - 1].check_count = check_count
                    /\ Len(output[n].lines) = Len(ip_addresses)
                    /\ \A k \in 1..Len(ip_addresses) :
                           LET h == history[ip_addresses[k]]
                               t == Cardinality({j \in 1..Len(h) : h[j]})
                               u == output[n].lines[k].uptime
                           IN  /\ output[n].lines[k].ip = ip_addresses[k]
                               /\ 2 * Len(h) * u - 2000 * t > 0 - Len(h)
                               /\ 2 * Len(h) * u - 2000 * t <= Len(h)
               ELSE /\ n >= 1
                    /\ output[n].kind = "results"
                    /\ output[n].check_count = check_count

C15_Witness ==
    /\ pc = "monitor_sleep"
    /\ check_count = 10
    /\ output[Len(output)].kind = "uptime"
    /\ \E k \in 1..Len(output[Len(output)].lines) :
           output[Len(output)].lines[k].uptime = 300

NoRepeats(addresses) ==
    \A p, q \in 1..Len(addresses) : addresses[p] = addresses[q] => p = q

InCycle ==
    Stage \in {"monitor_probe", "monitor_ping", "monitor_record", "monitor_evict"}

\* the list positions whose ping of the current cycle has returned
ProbedInCycle(p) ==
    p < idx \/ (p = idx /\ Stage \in {"monitor_record", "monitor_evict"})

\* the list positions whose result of the current cycle is in the history
Stored(p) == p < idx \/ (p = idx /\ Stage = "monitor_evict")

\* C20 as stated: for an address list without repeats, between two cycles
\* every history has length min(check_count, 10), and during a cycle two
\* histories differ in length by at most one, the longer one belonging to an
\* address already probed in the cycle and the shorter one to an address not
\* yet probed.
C20_ProbedAhead ==
    NoRepeats(ip_addresses) =>
        /\ Stage \in {"monitor_start", "monitor_print", "monitor_uptime",
                      "monitor_sleep"} =>
               \A ip \in AddressesOf(ip_addresses) :
                   Len(history[ip]) = Min(check_count, HistoryCapacity)
        /\ InCycle =>
               \A p, q \in 1..Len(ip_addresses) :
                   LET lp == Len(history[ip_addresses[p]])
                       lq == Len(history[ip_addresses[q]])
                   IN  /\ lp - lq <= 1
                       /\ lp > lq => (ProbedInCycle(p) /\ ~ProbedInCycle(q))

\* C20: for an address list without repeats, between two cycles (printing
\* or sleeping) every history has length min(check_count, 10); during a
\* cycle two histories differ in length by at most one and a longer history
\* belongs to an address whose result of the cycle has been stored; up to
\* the 10th cycle the addresses with a stored result are exactly one entry
\* ahead of the others.
C20_WindowsInStep ==
    NoRepeats(ip_addresses) =>
        /\ Stage \in {"monitor_start", "monitor_print", "monitor_uptime",
                      "monitor_sleep"} =>
               \A ip \in AddressesOf(ip_addresses) :
                   Len(history[ip]) = Min(check_count, HistoryCapacity)
        /\ InCycle =>
               \A p, q \in 1..Len(ip_addresses) :
                   LET lp == Len(history[ip_addresses[p]])
                       lq == Len(history[ip_addresses[q]])
                   IN  /\ lp - lq <= 1
                       /\ lp > lq => Stored(p)
                       /\ (check_count <= HistoryCapacity
                             /\ Stored(p) /\ ~Stored(q)) =>
                              lp = lq + 1

C20_Witness ==
    /\ NoRepeats(ip_addresses) /\ Len(ip_addresses) = 2
    /\ pc = "monitor_evict" /\ idx = 2 /\ check_count = 11
    /\ ProbedInCycle(1) /\ ProbedInCycle(2)
    /\ Len(history[ip_addresses[1]]) = 10
    /\ Len(history[ip_addresses[2]]) = 11

(***************************************************************************)
(* print_results                                                           *)
(***************************************************************************)
Printed == pc = "print_done" /\ Len(output) = 1

AliveRows(rs) == {k \in 1..Len(rs) : rs[k].is_alive}

\* C11: for every non-empty result list printed with its summary,
\* total_count is the number of results, alive_count the number of results
\* that are alive, and success_rate is alive_count / total_count * 100 to
\* the printed tenth; 3 of 4 give 75.0 and 1 of 4 gives 25.0.
C11_SummaryCounts ==
    (Printed /\ passed.results # <<>> /\ passed.show_summary) =>
        LET sm == output[1].summary
            total == Len(passed.results)
            n_alive == Cardinality(AliveRows(passed.results))
        IN  /\ sm.computed /\ sm.raised = "none"
            /\ sm.total_count = total
            /\ sm.alive_count = n_alive
            /\ sm.dead_count = total - n_alive
            /\ 2 * total * sm.success_rate - 2000 * n_alive >= 0 - total
            /\ 2 * total * sm.success_rate - 2000 * n_alive <= total
            /\ (total = 4 /\ n_alive = 3) => sm.success_rate = 750
            /\ (total = 4 /\ n_alive = 1) => sm.success_rate = 250

C11_Witness ==
    /\ Printed /\ passed.show_summary
    /\ Len(passed.results) = 4
    /\ Cardinality(AliveRows(passed.results)) = 3
    /\ output[1].summary.alive_count = 3
    /\ output[1].summary.success_rate = 750

\* C12: print_results on an empty result list prints "No results to
\* display." and returns without a summary: no rate is computed and no
\* division by a total_count of 0 is evaluated.
C12_EmptyRejected ==
    /\ \A k \in 1..Len(output) :
           output[k].kind \in {"results", "no_results"} =>
               output[k].summary.raised # "ZeroDivisionError"
    /\ (Printed /\ passed.results = <<>>) =>
           /\ output[1].kind = "no_results"
           /\ output[1].lines = <<>>
           /\ ~output[1].summary.computed

C12_Witness ==
    /\ Printed /\ passed.results = <<>> /\ passed.show_summary
    /\ output[1].kind = "no_results"

CountRow(rs, r) == Cardinality({k \in 1..Len(rs) : rs[k] = r})

\* C17: the rows print_results displays are a permutation of the results it
\* was given (repeated addresses kept, nothing added or dropped) and stand
\* in ascending lexicographic order of the address text, whatever the order
\* in which the results arrived.
C17_SortedPermutation ==
    (Printed /\ passed.results # <<>>) =>
        LET rows == output[1].lines
        IN  /\ Len(rows) = Len(passed.results)
            /\ \A r \in PrintRows :
                   CountRow(rows, r) = CountRow(passed.results, r)
            /\ \A k \in 1..(Len(rows) - 1) : ~StrLt(rows[k + 1].ip, rows[k].ip)

C17_Witness ==
    /\ Printed /\ Len(passed.results) >= 3
    /\ passed.results[1].ip = AddrB
    /\ passed.results[2].ip = AddrC
    /\ passed.results[3].ip = AddrB
    /\ output[1].lines[1].ip = AddrC
    /\ output[1].lines[2].ip = AddrB
    /\ output[1].lines[3].ip = AddrB

\* C18: after print_results has returned, the list the caller passed holds
\* the same results in the same order as before the call.
C18_InputUnchanged == Printed => results = passed.results

====
